---------------------------- MODULE Spec2Model ----------------------------
(***************************************************************************)
(* A model of the rules engine of src/vibecode.py: the seven-bag           *)
(* randomizer (Bag), the playfield (Board) and the game state machine      *)
(* (Game) with its intents move, rotate, soft drop, hard drop, hold and    *)
(* the gravity tick, as the event loop of main() dispatches them.          *)
(*                                                                         *)
(* Lists (the grid, the rows, the deques) are sequences; a Python index i  *)
(* is the sequence index i + 1.  None is the string "None".                *)
(***************************************************************************)
EXTENDS Integers, Sequences, FiniteSets, TLC

(***************************************************************************)
(* Config / constants (vibecode.py lines 35-57)                            *)
(***************************************************************************)
COLS == 10
ROWS == 22
LOCK_DELAY == 2
LOCK_DELAY_RESET_ON_MOVE == FALSE
GRAVITY_LEVELS == <<48, 43, 38, 33, 28, 23, 18, 13, 8, 6, 5, 5, 4, 4, 3, 3, 2, 2, 1>>

None == "None"
KINDS == <<"I", "J", "L", "O", "S", "T", "Z">>
Kinds == {KINDS[i] : i \in 1..Len(KINDS)}

(***************************************************************************)
(* Bounds of the model                                                     *)
(***************************************************************************)
\* number of intents (key events and ticks) one run from a game in progress processes
MaxSteps == 4
\* number of intents one run from a new game, on the open board, processes
NewGameSteps == 3
\* number of Bag.next() calls one run of the stand-alone Bag makes
MaxDraws == 15
\* number of outcomes of random.shuffle the game draws its bags from
NumShuffles == 2

(***************************************************************************)
(* Shape table and kick tables                                             *)
(***************************************************************************)
TETROMINO_BLOCKS ==
  [k \in Kinds |->
     CASE k = "I" -> << <<-1, 0>>, <<0, 0>>, <<1, 0>>, <<2, 0>> >>
       [] k = "J" -> << <<-1, -1>>, <<-1, 0>>, <<0, 0>>, <<1, 0>> >>
       [] k = "L" -> << <<-1, 0>>, <<0, 0>>, <<1, 0>>, <<1, -1>> >>
       [] k = "O" -> << <<0, 0>>, <<1, 0>>, <<0, -1>>, <<1, -1>> >>
       [] k = "S" -> << <<-1, 0>>, <<0, 0>>, <<0, -1>>, <<1, -1>> >>
       [] k = "T" -> << <<-1, 0>>, <<0, 0>>, <<1, 0>>, <<0, -1>> >>
       [] k = "Z" -> << <<-1, -1>>, <<0, -1>>, <<0, 0>>, <<1, 0>> >>]

\* the keys (from, to) of both kick tables
KickKeys == { <<0, 1>>, <<1, 0>>, <<1, 2>>, <<2, 1>>, <<2, 3>>, <<3, 2>>, <<3, 0>>, <<0, 3>> }

KICKS ==
  [key \in KickKeys |->
     CASE key = <<0, 1>> -> << <<0, 0>>, <<-1, 0>>, <<-1, 1>>, <<0, -2>>, <<-1, -2>> >>
       [] key = <<1, 0>> -> << <<0, 0>>, <<1, 0>>, <<1, -1>>, <<0, 2>>, <<1, 2>> >>
       [] key = <<1, 2>> -> << <<0, 0>>, <<1, 0>>, <<1, -1>>, <<0, 2>>, <<1, 2>> >>
       [] key = <<2, 1>> -> << <<0, 0>>, <<-1, 0>>, <<-1, 1>>, <<0, -2>>, <<-1, -2>> >>
       [] key = <<2, 3>> -> << <<0, 0>>, <<1, 0>>, <<1, 1>>, <<0, -2>>, <<1, -2>> >>
       [] key = <<3, 2>> -> << <<0, 0>>, <<-1, 0>>, <<-1, -1>>, <<0, 2>>, <<-1, 2>> >>
       [] key = <<3, 0>> -> << <<0, 0>>, <<-1, 0>>, <<-1, -1>>, <<0, 2>>, <<-1, 2>> >>
       [] key = <<0, 3>> -> << <<0, 0>>, <<1, 0>>, <<1, 1>>, <<0, -2>>, <<1, -2>> >>]

IKICKS ==
  [key \in KickKeys |->
     CASE key = <<0, 1>> -> << <<0, 0>>, <<-2, 0>>, <<1, 0>>, <<-2, -1>>, <<1, 2>> >>
       [] key = <<1, 0>> -> << <<0, 0>>, <<2, 0>>, <<-1, 0>>, <<2, 1>>, <<-1, -2>> >>
       [] key = <<1, 2>> -> << <<0, 0>>, <<-1, 0>>, <<2, 0>>, <<-1, 2>>, <<2, -1>> >>
       [] key = <<2, 1>> -> << <<0, 0>>, <<1, 0>>, <<-2, 0>>, <<1, -2>>, <<-2, 1>> >>
       [] key = <<2, 3>> -> << <<0, 0>>, <<2, 0>>, <<-1, 0>>, <<2, 1>>, <<-1, -2>> >>
       [] key = <<3, 2>> -> << <<0, 0>>, <<-2, 0>>, <<1, 0>>, <<-2, -1>>, <<1, 2>> >>
       [] key = <<3, 0>> -> << <<0, 0>>, <<1, 0>>, <<-2, 0>>, <<1, -2>>, <<-2, 1>> >>
       [] key = <<0, 3>> -> << <<0, 0>>, <<-1, 0>>, <<2, 0>>, <<-1, 2>>, <<2, -1>> >>]

\* kicks.get((old, new), [(0,0)]): the table's list, or [(0,0)] for a key it lacks
KickList(kicks, old, new) ==
  IF <<old, new>> \in DOMAIN kicks THEN kicks[<<old, new>>] ELSE << <<0, 0>> >>

(***************************************************************************)
(* Utilities                                                               *)
(***************************************************************************)
RECURSIVE rotate_times(_, _)
rotate_times(p, n) ==
  IF n = 0 THEN p ELSE rotate_times(<<p[2], -p[1]>>, n - 1)

\* rotate (x,y) around origin r times 90deg clockwise
rotate_point(x, y, r) == rotate_times(<<x, y>>, r % 4)

(***************************************************************************)
(* Tetromino                                                               *)
(***************************************************************************)
Tetromino(kind) == [kind |-> kind, rotation |-> 0, x |-> 4, y |-> 1]

\* the value None of a field that holds a Tetromino or None
NoPiece == [kind |-> None, rotation |-> 0, x |-> 0, y |-> 0]

\* get_cells(rot, xoff, yoff) with every argument given
get_cells(t, rot, xoff, yoff) ==
  [i \in 1..Len(TETROMINO_BLOCKS[t.kind]) |->
     LET b == TETROMINO_BLOCKS[t.kind][i]
         r == rotate_point(b[1], b[2], rot)
     IN  <<xoff + r[1], yoff + r[2]>>]

\* get_cells() with the piece's own rotation and position
cells_of(t) == get_cells(t, t.rotation, t.x, t.y)

(***************************************************************************)
(* Board                                                                   *)
(***************************************************************************)
EmptyRow == [c \in 1..COLS |-> None]
EmptyGrid == [r \in 1..ROWS |-> EmptyRow]

\* self.grid[y][x] for 0 <= y < ROWS, 0 <= x < COLS
grid_at(g, x, y) == g[y + 1][x + 1]

\* a collide that tests the walls and the floor only
collide_bounds_only(g, cells) ==
  \E i \in 1..Len(cells) :
     cells[i][1] < 0 \/ cells[i][1] >= COLS \/ cells[i][2] >= ROWS

collide(g, cells) ==
  \E i \in 1..Len(cells) :
     LET x == cells[i][1]
         y == cells[i][2]
     IN  \/ x < 0 \/ x >= COLS \/ y >= ROWS
         \/ (y >= 0 /\ grid_at(g, x, y) # None)

\* the loop of Board.lock over the cells from index i on
RECURSIVE lock_cells(_, _, _, _)
lock_cells(g, cells, kind, i) ==
  IF i > Len(cells) THEN g
  ELSE LET x == cells[i][1]
           y == cells[i][2]
       IN  lock_cells(IF 0 <= y /\ y < ROWS THEN [g EXCEPT ![y + 1][x + 1] = kind] ELSE g,
                      cells, kind, i + 1)

\* Board.lock: cells with y outside [0, ROWS) are not written
lock(g, t) == lock_cells(g, cells_of(t), t.kind, 1)

row_has_gap(row) == \E c \in 1..Len(row) : row[c] = None

\* a clear_lines that adds the empty rows at the bottom
RECURSIVE pad_bottom(_)
pad_bottom(new) == IF Len(new) < ROWS THEN pad_bottom(new \o <<EmptyRow>>) ELSE new

\* the while loop of clear_lines: insert empty rows at index 0
RECURSIVE pad_top(_)
pad_top(new) == IF Len(new) < ROWS THEN pad_top(<<EmptyRow>> \o new) ELSE new

\* Board.clear_lines: the new grid and the number of rows cleared
clear_lines(g) ==
  LET new == SelectSeq(g, row_has_gap)
  IN  [grid |-> pad_top(new), cleared |-> ROWS - Len(new)]

(***************************************************************************)
(* Bag                                                                     *)
(***************************************************************************)
RECURSIVE PermsOf(_)
PermsOf(S) ==
  IF S = {} THEN { <<>> }
  ELSE UNION { { <<k>> \o p : p \in PermsOf(S \ {k}) } : k \in S }

\* every outcome of random.shuffle(list(TETROMINO_BLOCKS.keys()))
AllShuffles == PermsOf(Kinds)

\* Bag._refill with the shuffle's outcome perm
refill(q, perm) == q \o perm

\* a Bag.next that refills one piece early
early_refill(q) == Len(q) <= 1

\* whether Bag.next refills before it pops
needs_refill(q) == Len(q) = 0

\* Bag.next: the piece returned and the queue left
bag_next(q, perm) ==
  LET q1 == IF needs_refill(q) THEN refill(q, perm) ELSE q
  IN  [piece |-> Tetromino(Head(q1)), q |-> Tail(q1), refilled |-> needs_refill(q)]

\* the first NumShuffles entries of this list are the shuffle outcomes a game draws from
ShuffleList ==
  << <<"I", "T", "O", "L", "J", "S", "Z">>,
     <<"T", "I", "J", "O", "Z", "L", "S">>,
     <<"O", "L", "I", "T", "S", "Z", "J">>,
     <<"J", "S", "T", "I", "L", "O", "Z">> >>
GameShuffles == { ShuffleList[i] : i \in 1..NumShuffles }

(***************************************************************************)
(* Game state                                                              *)
(***************************************************************************)
VARIABLES
  grid,           \* Board.grid
  bag,            \* Bag.q
  next_queue,     \* Game.next_queue
  current,        \* Game.current
  hold_piece,     \* Game.hold_piece (a Tetromino, or NoPiece for None)
  hold_used,      \* Game.hold_used
  level, score, lines, combo, back_to_back,
  gravity_timer, gravity_frames, lock_delay,
  game_over,
  drawn,          \* history: how often each kind was drawn in the current block of 7 draws
  last,           \* history: the last operation and what it did
  steps,          \* history: the number of operations so far
  limit,          \* the number of operations the run is followed for
  streak,         \* history: the number of consecutive clearing locks up to now
  fall            \* history of a run of ticks alone: the ticks the piece the last tick
                  \* acted on has had, the row it started from, whether it is locked

vars == <<grid, bag, next_queue, current, hold_piece, hold_used, level, score, lines,
          combo, back_to_back, gravity_timer, gravity_frames, lock_delay, game_over,
          drawn, last, steps, limit, streak, fall>>

\* the Game object (self) in the current state
Self ==
  [grid |-> grid, bag |-> bag, next_queue |-> next_queue, current |-> current,
   hold_piece |-> hold_piece, hold_used |-> hold_used, level |-> level, score |-> score,
   lines |-> lines, combo |-> combo, back_to_back |-> back_to_back,
   gravity_timer |-> gravity_timer, gravity_frames |-> gravity_frames,
   lock_delay |-> lock_delay, game_over |-> game_over, drawn |-> drawn]

\* the Game object in the next state
SelfNext ==
  [grid |-> grid', bag |-> bag', next_queue |-> next_queue', current |-> current',
   hold_piece |-> hold_piece', hold_used |-> hold_used', level |-> level', score |-> score',
   lines |-> lines', combo |-> combo', back_to_back |-> back_to_back',
   gravity_timer |-> gravity_timer', gravity_frames |-> gravity_frames',
   lock_delay |-> lock_delay', game_over |-> game_over', drawn |-> drawn']

\* the history of draws: draws 1-7 are one block, draws 8-14 the next, ...
NoDraws == [k \in Kinds |-> 0]
RECURSIVE SumOver(_, _)
SumOver(f, S) ==
  IF S = {} THEN 0 ELSE LET k == CHOOSE k \in S : TRUE IN f[k] + SumOver(f, S \ {k})
draws_in_block(d) == SumOver(d, Kinds)
note_draw(d, kind) ==
  IF draws_in_block(d) = 7 THEN [NoDraws EXCEPT ![kind] = 1]
  ELSE [d EXCEPT ![kind] = d[kind] + 1]

Min(a, b) == IF a < b THEN a ELSE b

gravity_frames_of(lvl) == GRAVITY_LEVELS[Min(lvl, Len(GRAVITY_LEVELS) - 1) + 1]

\* a spawn_next that does not test the spawn pose
spawn_next_unchecked(s, perm) ==
  LET r   == bag_next(s.bag, perm)
      cur == [Head(s.next_queue) EXCEPT !.x = 4, !.y = 0, !.rotation = 0]
  IN  [s EXCEPT !.current = cur,
                !.next_queue = Append(Tail(s.next_queue), r.piece),
                !.bag = r.q,
                !.drawn = note_draw(s.drawn, r.piece.kind)]

\* a spawn_next that takes the newest piece of the queue instead of the oldest
spawn_next_from_back(s, perm) ==
  LET r   == bag_next(s.bag, perm)
      n   == Len(s.next_queue)
      cur == [s.next_queue[n] EXCEPT !.x = 4, !.y = 0, !.rotation = 0]
  IN  [s EXCEPT !.current = cur,
                !.next_queue = Append(SubSeq(s.next_queue, 1, n - 1), r.piece),
                !.bag = r.q,
                !.drawn = note_draw(s.drawn, r.piece.kind),
                !.game_over = IF collide(s.grid, cells_of(cur)) THEN TRUE ELSE s.game_over]

\* Game.spawn_next
spawn_next(s, perm) ==
  LET r   == bag_next(s.bag, perm)
      cur == [Head(s.next_queue) EXCEPT !.x = 4, !.y = 0, !.rotation = 0]
  IN  [s EXCEPT !.current = cur,
                !.next_queue = Append(Tail(s.next_queue), r.piece),
                !.bag = r.q,
                !.drawn = note_draw(s.drawn, r.piece.kind),
                !.game_over = IF collide(s.grid, cells_of(cur)) THEN TRUE ELSE s.game_over]

\* a hold that fills the empty slot after the spawn, with the new piece's kind
hold_after_spawn(s, perm) ==
  IF s.hold_used THEN s
  ELSE LET s1 == IF s.hold_piece = NoPiece
                 THEN LET s2 == spawn_next(s, perm)
                      IN  [s2 EXCEPT !.hold_piece = Tetromino(s2.current.kind)]
                 ELSE LET cur == [Tetromino(s.hold_piece.kind)
                                    EXCEPT !.x = 4, !.y = 0, !.rotation = 0]
                      IN  [s EXCEPT !.current = cur,
                                    !.hold_piece = Tetromino(s.current.kind),
                                    !.game_over = IF collide(s.grid, cells_of(cur))
                                                  THEN TRUE ELSE s.game_over]
       IN  [s1 EXCEPT !.hold_used = TRUE, !.lock_delay = 0, !.gravity_timer = 0]

\* a hold that does not test the used-this-piece flag
hold_unguarded(s, perm) ==
  LET s1 == IF s.hold_piece = NoPiece
            THEN spawn_next([s EXCEPT !.hold_piece = Tetromino(s.current.kind)], perm)
            ELSE LET cur == [Tetromino(s.hold_piece.kind)
                               EXCEPT !.x = 4, !.y = 0, !.rotation = 0]
                 IN  [s EXCEPT !.current = cur,
                               !.hold_piece = Tetromino(s.current.kind),
                               !.game_over = IF collide(s.grid, cells_of(cur))
                                             THEN TRUE ELSE s.game_over]
  IN  [s1 EXCEPT !.hold_used = TRUE, !.lock_delay = 0, !.gravity_timer = 0]

\* a hold whose swap leaves the swapped-in piece where the current piece was
hold_swap_in_place(s, perm) ==
  IF s.hold_used THEN s
  ELSE LET s1 == IF s.hold_piece = NoPiece
                 THEN spawn_next([s EXCEPT !.hold_piece = Tetromino(s.current.kind)], perm)
                 ELSE LET cur == [s.current EXCEPT !.kind = s.hold_piece.kind]
                      IN  [s EXCEPT !.current = cur,
                                    !.hold_piece = Tetromino(s.current.kind),
                                    !.game_over = IF collide(s.grid, cells_of(cur))
                                                  THEN TRUE ELSE s.game_over]
       IN  [s1 EXCEPT !.hold_used = TRUE, !.lock_delay = 0, !.gravity_timer = 0]

\* Game.hold
hold(s, perm) ==
  IF s.hold_used THEN s
  ELSE LET s1 == IF s.hold_piece = NoPiece
                 THEN spawn_next([s EXCEPT !.hold_piece = Tetromino(s.current.kind)], perm)
                 ELSE LET cur == [Tetromino(s.hold_piece.kind)
                                    EXCEPT !.x = 4, !.y = 0, !.rotation = 0]
                      IN  [s EXCEPT !.current = cur,
                                    !.hold_piece = Tetromino(s.current.kind),
                                    !.game_over = IF collide(s.grid, cells_of(cur))
                                                  THEN TRUE ELSE s.game_over]
       IN  [s1 EXCEPT !.hold_used = TRUE, !.lock_delay = 0, !.gravity_timer = 0]

\* Game.detect_tspin: the number of blocked corners around the T's centre
blocked_corners(g, t) ==
  LET corners == << <<-1, -1>>, <<1, -1>>, <<-1, 1>>, <<1, 1>> >>
      blocked(i) == LET x == t.x + corners[i][1]
                        y == t.y + corners[i][2]
                    IN  IF x < 0 \/ x >= COLS \/ y < 0 \/ y >= ROWS THEN TRUE
                        ELSE grid_at(g, x, y) # None
  IN  Cardinality({i \in 1..Len(corners) : blocked(i)})

detect_tspin(g, t) ==
  IF t.kind # "T" THEN FALSE ELSE blocked_corners(g, t) >= 3

\* a score table that pays 100 points per line
base_score_linear(is_tspin, cleared) ==
  IF is_tspin THEN 400 + 400 * cleared ELSE 100 * cleared

\* after_lock: the base score of a lock
base_score(is_tspin, cleared) ==
  IF is_tspin
  THEN CASE cleared = 1 -> 800
         [] cleared = 2 -> 1200
         [] cleared = 3 -> 1600
         [] OTHER -> 400
  ELSE CASE cleared = 0 -> 0
         [] cleared = 1 -> 100
         [] cleared = 2 -> 300
         [] cleared = 3 -> 500
         [] cleared = 4 -> 800
         [] OTHER -> 0

\* a clear that qualifies for back-to-back
difficult(is_tspin, cleared) == cleared = 4 \/ (is_tspin /\ cleared > 0)

\* int(base * b2b_bonus) with b2b_bonus 1.5 or 1
b2b_score(base, b2b, is_tspin, cleared) ==
  IF b2b /\ difficult(is_tspin, cleared) THEN (base * 3) \div 2 ELSE base

\* the bonus of a hard drop
hard_bonus(t) == 2 * (ROWS - t.y)

\* a back-to-back update that a lock without a cleared line resets
b2b_reset_without_clear(b2b, is_tspin, cleared) ==
  cleared > 0 /\ difficult(is_tspin, cleared)

\* after_lock: the back-to-back flag after a lock
b2b_after(b2b, is_tspin, cleared) ==
  IF cleared > 0 THEN difficult(is_tspin, cleared) ELSE b2b

\* a combo update that starts every clearing lock at 0
combo_restart(combo_before, cleared) == IF cleared > 0 THEN 0 ELSE -1

\* after_lock: the combo counter after a lock
combo_after(combo_before, cleared) ==
  IF cleared > 0
  THEN (IF combo_before >= 0 THEN combo_before + 1 ELSE 0)
  ELSE -1

\* Game.after_lock, called with the grid already locked and cleared
after_lock(s, cleared, hard, perm) ==
  LET is_tspin == IF s.current.kind = "T" THEN detect_tspin(s.grid, s.current) ELSE FALSE
      base     == base_score(is_tspin, cleared)
      score1   == s.score + b2b_score(base, s.back_to_back, is_tspin, cleared)
      score2   == IF hard THEN score1 + hard_bonus(s.current) ELSE score1
      lines1   == s.lines + cleared
      score3   == IF cleared > 0 /\ difficult(is_tspin, cleared) /\ s.back_to_back
                  THEN score2 + 50 ELSE score2
      s1 == [s EXCEPT !.score = score3,
                      !.lines = lines1,
                      !.combo = combo_after(s.combo, cleared),
                      !.back_to_back = b2b_after(s.back_to_back, is_tspin, cleared),
                      !.level = lines1 \div 10,
                      !.gravity_frames = gravity_frames_of(lines1 \div 10),
                      !.hold_used = FALSE,
                      !.lock_delay = 0]
  IN  spawn_next(s1, perm)

\* a lock that is not followed by clear_lines
lock_without_clear(s, hard, perm) ==
  after_lock([s EXCEPT !.grid = lock(s.grid, s.current)], 0, hard, perm)

\* board.lock(current); cleared = board.clear_lines(); after_lock(cleared, hard)
lock_and_clear(s, hard, perm) ==
  LET c == clear_lines(lock(s.grid, s.current))
  IN  after_lock([s EXCEPT !.grid = c.grid], c.cleared, hard, perm)

\* the descent loop of hard_drop (and of the ghost projection): the resting y
RECURSIVE drop_y(_, _, _)
drop_y(g, t, y) ==
  IF collide(g, get_cells(t, t.rotation, t.x, y + 1)) THEN y ELSE drop_y(g, t, y + 1)

\* Game.hard_drop
hard_drop(s, perm) ==
  lock_and_clear([s EXCEPT !.current.y = drop_y(s.grid, s.current, s.current.y)], TRUE, perm)

\* Game.soft_drop: the new state and the value returned
soft_drop(s) ==
  IF ~collide(s.grid, get_cells(s.current, s.current.rotation, s.current.x, s.current.y + 1))
  THEN [s |-> [s EXCEPT !.current.y = s.current.y + 1,
                        !.score = s.score + 1,
                        !.lock_delay = IF LOCK_DELAY_RESET_ON_MOVE THEN 0 ELSE s.lock_delay],
        ret |-> TRUE]
  ELSE [s |-> s, ret |-> FALSE]

\* Game.try_move
try_move(s, dx) ==
  IF collide(s.grid, get_cells(s.current, s.current.rotation, s.current.x + dx, s.current.y))
  THEN [s |-> s, ret |-> FALSE]
  ELSE [s |-> [s EXCEPT !.current.x = s.current.x + dx,
                        !.lock_delay = IF LOCK_DELAY_RESET_ON_MOVE THEN 0 ELSE s.lock_delay],
        ret |-> TRUE]

\* a try_rotate that commits the last legal candidate instead of the first
RECURSIVE try_kicks_last(_, _, _, _, _)
try_kicks_last(s, old, new, cands, i) ==
  IF i > Len(cands)
  THEN [s |-> [s EXCEPT !.current.rotation = old], ret |-> FALSE]
  ELSE LET nx   == s.current.x + cands[i][1]
           ny   == s.current.y + cands[i][2]
           rest == try_kicks_last(s, old, new, cands, i + 1)
       IN  IF rest.ret THEN rest
           ELSE IF ~collide(s.grid, get_cells(s.current, new, nx, ny))
           THEN [s |-> [s EXCEPT !.current.x = nx, !.current.y = ny,
                                 !.current.rotation = new],
                 ret |-> TRUE]
           ELSE rest

\* a try_rotate that keeps the tentative rotation when no candidate is legal
RECURSIVE try_kicks_no_revert(_, _, _, _, _)
try_kicks_no_revert(s, old, new, cands, i) ==
  IF i > Len(cands)
  THEN [s |-> s, ret |-> FALSE]
  ELSE LET nx == s.current.x + cands[i][1]
           ny == s.current.y + cands[i][2]
       IN  IF ~collide(s.grid, get_cells(s.current, new, nx, ny))
           THEN [s |-> [s EXCEPT !.current.x = nx, !.current.y = ny,
                                 !.current.rotation = new],
                 ret |-> TRUE]
           ELSE try_kicks_no_revert(s, old, new, cands, i + 1)

\* the loop of try_rotate over the kick candidates from index i on
RECURSIVE try_kicks(_, _, _, _, _)
try_kicks(s, old, new, cands, i) ==
  IF i > Len(cands)
  THEN [s |-> [s EXCEPT !.current.rotation = old], ret |-> FALSE]
  ELSE LET nx == s.current.x + cands[i][1]
           ny == s.current.y + cands[i][2]
       IN  IF ~collide(s.grid, get_cells(s.current, new, nx, ny))
           THEN [s |-> [s EXCEPT !.current.x = nx, !.current.y = ny,
                                 !.current.rotation = new,
                                 !.lock_delay = IF LOCK_DELAY_RESET_ON_MOVE
                                                THEN 0 ELSE s.lock_delay],
                 ret |-> TRUE]
           ELSE try_kicks(s, old, new, cands, i + 1)

\* Game.try_rotate
try_rotate(s, dir) ==
  LET old   == s.current.rotation
      new   == (old + (dir % 4)) % 4
      kicks == IF s.current.kind = "I" THEN IKICKS ELSE KICKS
  IN  try_kicks([s EXCEPT !.current.rotation = new], old, new, KickList(kicks, old, new), 1)

\* a gravity_step that locks a resting piece at once, without lock delay
gravity_step_no_delay(s, perm) ==
  IF ~collide(s.grid, get_cells(s.current, s.current.rotation, s.current.x, s.current.y + 1))
  THEN [s |-> [s EXCEPT !.current.y = s.current.y + 1, !.lock_delay = 0], ret |-> FALSE]
  ELSE [s |-> lock_and_clear([s EXCEPT !.lock_delay = s.lock_delay + 1], FALSE, perm),
        ret |-> TRUE]

\* a gravity_step that locks a resting piece one tick late
gravity_step_lock_late(s, perm) ==
  IF ~collide(s.grid, get_cells(s.current, s.current.rotation, s.current.x, s.current.y + 1))
  THEN [s |-> [s EXCEPT !.current.y = s.current.y + 1, !.lock_delay = 0], ret |-> FALSE]
  ELSE LET s1 == [s EXCEPT !.lock_delay = s.lock_delay + 1]
       IN  IF s1.lock_delay > LOCK_DELAY
           THEN [s |-> lock_and_clear(s1, FALSE, perm), ret |-> TRUE]
           ELSE [s |-> s1, ret |-> FALSE]

\* Game.gravity_step
gravity_step(s, perm) ==
  IF ~collide(s.grid, get_cells(s.current, s.current.rotation, s.current.x, s.current.y + 1))
  THEN [s |-> [s EXCEPT !.current.y = s.current.y + 1, !.lock_delay = 0], ret |-> FALSE]
  ELSE LET s1 == [s EXCEPT !.lock_delay = s.lock_delay + 1]
       IN  IF s1.lock_delay >= LOCK_DELAY
           THEN [s |-> lock_and_clear(s1, FALSE, perm), ret |-> TRUE]
           ELSE [s |-> s1, ret |-> FALSE]

\* the loop of Game.__init__ that fills next_queue
RECURSIVE fill_queue(_, _)
fill_queue(s, n) ==
  IF n = 0 THEN s
  ELSE LET r == bag_next(s.bag, <<>>)
       IN  fill_queue([s EXCEPT !.next_queue = Append(s.next_queue, r.piece),
                                !.bag = r.q,
                                !.drawn = note_draw(s.drawn, r.piece.kind)], n - 1)

\* the Game under construction once self.board and self.bag are set
NewBoardAndBag(perm) ==
  [grid |-> EmptyGrid, bag |-> refill(<<>>, perm), next_queue |-> <<>>,
   current |-> NoPiece, hold_piece |-> NoPiece, hold_used |-> FALSE, level |-> 0,
   score |-> 0, lines |-> 0, combo |-> -1, back_to_back |-> FALSE,
   gravity_timer |-> 0, gravity_frames |-> gravity_frames_of(0),
   lock_delay |-> 0, game_over |-> FALSE, drawn |-> NoDraws]

\* Game.__init__ with the first shuffle's outcome perm
NewGame(perm) ==
  LET s1 == spawn_next(fill_queue(NewBoardAndBag(perm), 5), <<>>)
  IN  [s1 EXCEPT !.game_over = FALSE]

(***************************************************************************)
(* The state machine: one action per intent, as main() dispatches them     *)
(***************************************************************************)
Commit(s) ==
  /\ grid' = s.grid
  /\ bag' = s.bag
  /\ next_queue' = s.next_queue
  /\ current' = s.current
  /\ hold_piece' = s.hold_piece
  /\ hold_used' = s.hold_used
  /\ level' = s.level
  /\ score' = s.score
  /\ lines' = s.lines
  /\ combo' = s.combo
  /\ back_to_back' = s.back_to_back
  /\ gravity_timer' = s.gravity_timer
  /\ gravity_frames' = s.gravity_frames
  /\ lock_delay' = s.lock_delay
  /\ game_over' = s.game_over
  /\ drawn' = s.drawn

\* an intent op(arg) that returned ret takes the game from Self to s
Step(op, arg, ret, s) ==
  /\ steps < limit
  /\ Commit(s)
  /\ last' = [op |-> op, arg |-> arg, ret |-> ret, pre |-> Self]
  /\ steps' = steps + 1
  /\ limit' = limit
  /\ streak' = IF op = "hard" \/ (op = "tick" /\ ret)
               THEN (IF s.lines > lines THEN streak + 1 ELSE 0)
               ELSE streak
  /\ fall' = fall

\* K_LEFT: game.try_move(-1)
MoveLeft == LET r == try_move(Self, -1) IN Step("move", -1, r.ret, r.s)

\* K_RIGHT: game.try_move(1)
MoveRight == LET r == try_move(Self, 1) IN Step("move", 1, r.ret, r.s)

\* K_z, K_LCTRL: game.try_rotate(1)
RotateCW == LET r == try_rotate(Self, 1) IN Step("rotate", 1, r.ret, r.s)

\* K_x, K_UP: game.try_rotate(-1)
RotateCCW == LET r == try_rotate(Self, -1) IN Step("rotate", -1, r.ret, r.s)

\* K_a: game.try_rotate(2)
Rotate180 == LET r == try_rotate(Self, 2) IN Step("rotate", 2, r.ret, r.s)

\* the loop of K_DOWN: soft_drop() is called until it returns False
RECURSIVE soft_drop_loop(_)
soft_drop_loop(s) ==
  LET r == soft_drop(s) IN IF r.ret THEN soft_drop_loop(r.s) ELSE s

\* K_DOWN with SOFT_DROP_INTERVAL == 0: while game.soft_drop(): pass
\* (arg is the number of successful soft_drop calls, ret whether there was one)
SoftDrop ==
  LET s1 == soft_drop_loop(Self)
  IN  Step("soft", s1.current.y - current.y, s1.current.y > current.y, s1)

\* the outcomes of random.shuffle a call of Bag.next on queue q can see
shuffle_outcomes(q, all) == IF needs_refill(q) THEN all ELSE { <<>> }

\* K_SPACE: game.hard_drop()
HardDrop ==
  \E perm \in shuffle_outcomes(bag, GameShuffles) :
     Step("hard", 0, TRUE, hard_drop(Self, perm))

\* K_LSHIFT, K_c: game.hold()
Hold ==
  \E perm \in shuffle_outcomes(bag, GameShuffles) :
     Step("hold", 0, ~hold_used, hold(Self, perm))

\* the gravity tick of the main loop, which a finished game no longer reaches
Tick ==
  /\ ~game_over
  /\ \E perm \in shuffle_outcomes(bag, GameShuffles) :
       LET r == gravity_step(Self, perm) IN Step("tick", 0, r.ret, r.s)

(***************************************************************************)
(* Initial states: a new game, and games in progress                       *)
(***************************************************************************)
\* a grid given by the empty columns of each row (Python row index 0..ROWS-1)
GridOf(empties) ==
  [r \in 1..ROWS |->
     [c \in 1..COLS |->
        IF (c - 1) \in empties[r - 1] THEN None ELSE KINDS[((r + c) % 7) + 1]]]

AllCols == 0..(COLS - 1)

\* a stack up to row 2 with a well in column 4 over rows 2..5, of which the lowest
\* k rows have no other gap; the rows below have buried gaps
WellGrid(k) ==
  GridOf([y \in 0..(ROWS - 1) |->
            IF y < 2 THEN AllCols
            ELSE IF y <= 5 - k THEN {4, 9}
            ELSE IF y <= 5 THEN {4}
            ELSE IF y = ROWS - 1 /\ k % 2 = 1 THEN {0, 9}
            ELSE {0}])

\* a stack up to row 1 whose rows have one gap each
TopGrid ==
  GridOf([y \in 0..(ROWS - 1) |->
            IF y < 1 THEN AllCols
            ELSE IF y = ROWS - 1 THEN {0, 9}
            ELSE IF y % 2 = 1 THEN {9} ELSE {8}])

\* the same stack with column 6 reaching row 0
TopGrid6 ==
  GridOf([y \in 0..(ROWS - 1) |->
            IF y < 1 THEN AllCols \ {6}
            ELSE IF y % 2 = 1 THEN {9} ELSE {8}])

\* a stack with a T slot at rows 3..4 under an overhang at (3, 2)
SlotGrid ==
  GridOf([y \in 0..(ROWS - 1) |->
            IF y < 2 THEN AllCols
            ELSE IF y = 2 THEN 4..9
            ELSE IF y = 3 THEN {3, 4, 5}
            ELSE IF y = 4 THEN {4}
            ELSE IF y = 5 THEN {0, 9}
            ELSE {0}])

\* a stack up to row 3 where a T pointing down completes rows 4 and 5 and the row
\* above them is left with the four gaps of a flat I
ComboGrid ==
  GridOf([y \in 0..(ROWS - 1) |->
            IF y < 3 THEN AllCols
            ELSE IF y = 3 THEN {3, 4, 5, 6}
            ELSE IF y = 4 THEN {3, 4, 5}
            ELSE IF y = 5 THEN {4}
            ELSE {0}])

\* a stack up to row 2 with a slot at the left wall: a T upright in column 0 with its
\* nose in column 1 completes row 3 and rests on (1, 4)
WallGrid ==
  GridOf([y \in 0..(ROWS - 1) |->
            IF y < 2 THEN AllCols
            ELSE IF y = 2 THEN {0, 1, 2}
            ELSE IF y = 3 THEN {0, 1}
            ELSE IF y = 4 THEN {0, 9}
            ELSE {5}])

\* the number of locked cells of grid g
CellCount(g) ==
  Cardinality({rc \in (1..ROWS) \X (1..COLS) : g[rc[1]][rc[2]] # None})

\* every lock adds 4 cells and every cleared line removes COLS cells: with a whole
\* number of bags used up by the current piece, the queue, the held pieces and the
\* locks, a grid g is left by a number of cleared lines that satisfies this
LinesFor(g, held) ==
  CHOOSE n \in 0..13 : (CellCount(g) + COLS * n + 4 * held) % 28 = 0

\* a game in progress: the pieces of a game whose bag was shuffled to perm, on grid g,
\* with the current piece at pose (x, y, rot), after single-line clears
InProgress(perm, g, x, y, rot) ==
  LET n == LinesFor(g, 0)
  IN  [NewGame(perm) EXCEPT !.grid = g, !.current.x = x, !.current.y = y,
                            !.current.rotation = rot,
                            !.lines = n, !.level = n \div 10,
                            !.gravity_frames = gravity_frames_of(n \div 10),
                            !.score = 100 * n]

\* the same with kind held in the hold slot
InProgressHolding(perm, g, x, y, rot, kind) ==
  LET n == LinesFor(g, 1)
  IN  [InProgress(perm, g, x, y, rot) EXCEPT !.hold_piece = Tetromino(kind),
                                             !.lines = n, !.level = n \div 10,
                                             !.gravity_frames = gravity_frames_of(n \div 10),
                                             !.score = 100 * n]

\* the same after a last clear of four lines: back-to-back is active
AfterTetris(s) == [s EXCEPT !.back_to_back = TRUE, !.score = s.score + 400]

\* a new game
NewGames == { NewGame(perm) : perm \in GameShuffles }

\* games in progress
GamesInProgress ==
  \* an I resting in the well, with back-to-back active or not
  { InProgress(ShuffleList[1], WellGrid(k), 4, 3, 3) : k \in 1..4 }
  \cup { AfterTetris(InProgress(ShuffleList[1], WellGrid(k), 4, 3, 3)) : k \in 1..4 }
  \* a T resting on a stack that reaches row 1, under the spawn position or left of it
  \cup { InProgress(ShuffleList[2], TopGrid, x, 0, 0) : x \in {1, 4} }
  \* an O at the spawn position with an I in the hold slot
  \cup { InProgressHolding(ShuffleList[3], TopGrid6, 4, 0, 0, "I") }
  \* a T upright in the slot
  \cup { InProgress(ShuffleList[2], SlotGrid, 4, 3, 3) }
  \* a T pointing down in its slot, an I next
  \cup { InProgress(ShuffleList[2], ComboGrid, 4, 4, 2) }
  \* a T upright at the left wall
  \cup { InProgress(ShuffleList[2], WallGrid, 0, 3, 3) }

Scenarios == NewGames \cup GamesInProgress

StartsAs(s) ==
  /\ grid = s.grid
  /\ bag = s.bag
  /\ next_queue = s.next_queue
  /\ current = s.current
  /\ hold_piece = s.hold_piece
  /\ hold_used = s.hold_used
  /\ level = s.level
  /\ score = s.score
  /\ lines = s.lines
  /\ combo = s.combo
  /\ back_to_back = s.back_to_back
  /\ gravity_timer = s.gravity_timer
  /\ gravity_frames = s.gravity_frames
  /\ lock_delay = s.lock_delay
  /\ game_over = s.game_over
  /\ drawn = s.drawn
  /\ last = [op |-> "init", arg |-> 0, ret |-> FALSE, pre |-> s]
  /\ steps = 0
  /\ streak = 0
  /\ fall = [ticks |-> 0, y |-> s.current.y, locked |-> FALSE]

Init ==
  \E s \in Scenarios :
     /\ StartsAs(s)
     /\ limit = IF s \in NewGames THEN NewGameSteps ELSE MaxSteps

Next ==
  \/ MoveLeft
  \/ MoveRight
  \/ RotateCW
  \/ RotateCCW
  \/ Rotate180
  \/ SoftDrop
  \/ HardDrop
  \/ Hold
  \/ Tick

Spec == Init /\ [][Next]_vars

(***************************************************************************)
(* The Bag on its own: a fresh Bag and a sequence of next() calls          *)
(***************************************************************************)
BagInit ==
  /\ \E perm \in AllShuffles : StartsAs(NewBoardAndBag(perm))
  /\ limit = MaxDraws

BagNext ==
  /\ steps < limit
  /\ \E perm \in shuffle_outcomes(bag, AllShuffles) :
       LET r == bag_next(bag, perm)
       IN  /\ bag' = r.q
           /\ drawn' = note_draw(drawn, r.piece.kind)
           /\ last' = [op |-> "next", arg |-> 0, ret |-> TRUE, pre |-> Self]
  /\ steps' = steps + 1
  /\ UNCHANGED <<grid, next_queue, current, hold_piece, hold_used, level, score, lines,
                 combo, back_to_back, gravity_timer, gravity_frames, lock_delay,
                 game_over, limit, streak, fall>>

BagSpec == BagInit /\ [][BagNext]_vars

(***************************************************************************)
(* The Board on its own: clear_lines applied to a grid                     *)
(***************************************************************************)
\* the rows a grid under test is made of
RowPatterns ==
  << EmptyRow,
     [c \in 1..COLS |-> KINDS[(c % 7) + 1]],
     [c \in 1..COLS |-> IF c = 1 THEN None ELSE "J"],
     [c \in 1..COLS |-> IF c % 2 = 0 THEN None ELSE "S"] >>

\* the number of rows of a grid under test that are not empty
ClearRows == 4

\* grids whose rows off+1 .. off+ClearRows are patterns and whose other rows are empty
TestGrids ==
  { [r \in 1..ROWS |->
       IF r > off /\ r <= off + ClearRows THEN RowPatterns[f[r - off]] ELSE EmptyRow] :
      off \in {0, 9, ROWS - ClearRows - 1},
      f \in [1..ClearRows -> 1..Len(RowPatterns)] }

ClearInit ==
  /\ \E g \in TestGrids : StartsAs([NewBoardAndBag(ShuffleList[1]) EXCEPT !.grid = g])
  /\ limit = 1

ClearLines ==
  /\ last.op = "init"
  /\ LET c == clear_lines(grid)
     IN  /\ grid' = c.grid
         /\ last' = [op |-> "clear_lines", arg |-> c.cleared, ret |-> TRUE, pre |-> Self]
  /\ steps' = steps + 1
  /\ UNCHANGED <<bag, next_queue, current, hold_piece, hold_used, level, score, lines,
                 combo, back_to_back, gravity_timer, gravity_frames, lock_delay,
                 game_over, drawn, limit, streak, fall>>

ClearSpec == ClearInit /\ [][ClearLines]_vars

(***************************************************************************)
(* Gravity on its own: a game left to the gravity ticks of the main loop   *)
(***************************************************************************)
\* the outcomes of the first two shuffles of a game played into a tower
TowerShuffles ==
  << <<"I", "J", "L", "O", "S", "T", "Z">>, <<"L", "I", "T", "O", "J", "S", "Z">> >>

\* K_RIGHT pressed until the current piece is at column x or is blocked
RECURSIVE move_right_to(_, _)
move_right_to(s, x) ==
  IF s.current.x >= x THEN s
  ELSE LET r == try_move(s, 1)
       IN  IF r.ret THEN move_right_to(r.s, x) ELSE s

\* K_z pressed n times
RECURSIVE rotate_cw(_, _)
rotate_cw(s, n) == IF n = 0 THEN s ELSE rotate_cw(try_rotate(s, 1).s, n - 1)

\* a piece played to the right: K_z n times, K_RIGHT up to column x, K_SPACE
StackRight(s, n, x, perm) == hard_drop(move_right_to(rotate_cw(s, n), x), perm)

\* the first 8 pieces of the game (I J L O S T Z L), stacked in columns 8 and 9
TowerI  == StackRight(NewGame(TowerShuffles[1]), 1, 8, TowerShuffles[2])
TowerJ  == StackRight(TowerI, 1, 9, TowerShuffles[2])
TowerL  == StackRight(TowerJ, 1, 9, TowerShuffles[2])
TowerO  == StackRight(TowerL, 0, 8, TowerShuffles[2])
TowerS  == StackRight(TowerO, 1, 9, TowerShuffles[2])
TowerT  == StackRight(TowerS, 1, 9, TowerShuffles[2])
TowerZ  == StackRight(TowerT, 1, 9, TowerShuffles[2])

\* the game after these 8 hard drops: a tower in columns 8 and 9 that reaches row 0,
\* all other columns empty, the 9th piece (I) at the spawn pose
TowerGame == StackRight(TowerZ, 1, 9, TowerShuffles[2])

\* then K_z and K_RIGHT three times: the I stands upright in column 7
TowerUpright == move_right_to(rotate_cw(TowerGame, 1), 7)

\* then K_x: the only free kick candidate, (-1, -2), lifts the I above the board
TowerKicked == try_rotate(TowerUpright, -1).s

\* then K_LEFT: the I lies above four empty columns
TowerOverWell == try_move(TowerKicked, -1).s

\* the states the ticks are left alone from
TickStarts ==
  NewGames \cup GamesInProgress \cup {TowerGame, TowerUpright, TowerKicked, TowerOverWell}

TickInit ==
  /\ \E s \in TickStarts : StartsAs(s)
  /\ limit = 0

\* the history of the fall after a tick that locked the piece or not: a tick after a
\* lock is the first tick of the piece spawned by it
FallAfter(locked) ==
  IF fall.locked
  THEN [ticks |-> 1, y |-> current.y, locked |-> locked]
  ELSE [ticks |-> fall.ticks + 1, y |-> fall.y, locked |-> locked]

\* game.gravity_step() of the main loop, no key pressed in between
TickRun ==
  /\ ~game_over
  /\ \E perm \in shuffle_outcomes(bag, GameShuffles) :
       LET r == gravity_step(Self, perm)
       IN  /\ Commit(r.s)
           /\ last' = [op |-> "tick", arg |-> 0, ret |-> r.ret, pre |-> Self]
           /\ fall' = FallAfter(r.ret)
  /\ UNCHANGED <<steps, limit, streak>>

\* what a tick does to the history of the fall: every TickRun step is such a step and
\* changes fall, and one is possible exactly while the game is not over
Ticks == ~game_over /\ \E locked \in BOOLEAN : fall' = FallAfter(locked)

\* the main loop runs gravity_step every gravity_frames frames while the game is
\* neither paused nor over: a tick that stays possible is taken
TickSpec == TickInit /\ [][TickRun]_vars /\ WF_fall(Ticks)

(***************************************************************************)
(* Properties                                                              *)
(***************************************************************************)
\* the last operation locked the current piece
Locked == last.op = "hard" \/ (last.op = "tick" /\ last.ret)

\* the last operation spawned a piece: a lock, or a hold that was not rejected
Spawned == Locked \/ (last.op = "hold" /\ last.ret)

\* the pose the last operation locked the piece at
LockPose ==
  IF last.op = "hard"
  THEN [last.pre.current EXCEPT !.y = drop_y(last.pre.grid, last.pre.current,
                                            last.pre.current.y)]
  ELSE last.pre.current

\* the rows of g without an empty cell (sequence indices)
FullRows(g) == {r \in 1..Len(g) : \A c \in 1..COLS : g[r][c] # None}

\* the number of rows above r that are not full
KeptBefore(g, r) == Cardinality({q \in 1..(r - 1) : q \notin FullRows(g)})

\* C1: Bag fairness. Counting the draws of a Bag in blocks of 7 from its first draw,
\* no kind is drawn twice within a block, a complete block holds each of the 7 kinds
\* exactly once, and a next() call refills the queue only when it is empty.
C1_BagFairness ==
  /\ \A k \in Kinds : drawn[k] <= 1
  /\ draws_in_block(drawn) = 7 => \A k \in Kinds : drawn[k] = 1
  /\ last.op = "next" =>
       IF Len(last.pre.bag) = 0 THEN Len(bag) = 6 ELSE bag = Tail(last.pre.bag)

\* the second block of 7 draws is complete: the Bag was refilled on the 8th draw
C1_Witness ==
  /\ last.op = "next"
  /\ steps = 14
  /\ draws_in_block(drawn) = 7

\* C4: Line-clear compaction. clear_lines returns the number of full rows, removes
\* exactly those rows, keeps the other rows in order and unchanged, and puts that many
\* empty rows on top: the grid keeps ROWS rows of COLS cells.
C4_LineClearCompaction ==
  last.op = "clear_lines" =>
    LET g0 == last.pre.grid
        n  == Cardinality(FullRows(g0))
    IN  /\ last.arg = n
        /\ Len(grid) = ROWS
        /\ \A r \in 1..ROWS : Len(grid[r]) = COLS
        /\ \A r \in 1..n : grid[r] = EmptyRow
        /\ \A r \in 1..ROWS :
             r \notin FullRows(g0) => grid[n + KeptBefore(g0, r) + 1] = g0[r]

\* two rows were cleared and a row with cells in it moved down
C4_Witness ==
  /\ last.op = "clear_lines"
  /\ last.arg = 2
  /\ \E r \in 1..ROWS :
       /\ r \notin FullRows(last.pre.grid)
       /\ last.pre.grid[r] # EmptyRow
       /\ \E q \in FullRows(last.pre.grid) : q > r

\* every cell of piece t is inside the walls and above the floor, and on no locked cell
Legal(g, t) ==
  \A i \in 1..4 :
     LET x == cells_of(t)[i][1]
         y == cells_of(t)[i][2]
     IN  /\ 0 <= x /\ x < COLS /\ y < ROWS
         /\ y >= 0 => g[y + 1][x + 1] = None

\* C2: Collision symmetry. After a successful move, rotate or soft drop, and after a
\* spawn that leaves the game running, the current piece is inside the walls, above the
\* floor and on no locked cell.
C2_NoCollidingPose ==
  (\/ (last.op \in {"move", "rotate", "soft"} /\ last.ret)
   \/ (Spawned /\ ~game_over))
  => Legal(grid, current)

\* a rotation was committed with a kick next to locked cells
C2_Witness ==
  /\ last.op = "rotate" /\ last.ret
  /\ current.y # last.pre.current.y
  /\ grid # EmptyGrid

\* the kick candidates of a 90-degree rotate of piece p in direction dir
KickCandidates(p, dir) ==
  (IF p.kind = "I" THEN IKICKS ELSE KICKS)[<<p.rotation, (p.rotation + dir) % 4>>]

\* candidate i of the rotate of p in direction dir is legal on grid g
KickFree(g, p, dir, i) ==
  Legal(g, [p EXCEPT !.rotation = (p.rotation + dir) % 4,
                     !.x = p.x + KickCandidates(p, dir)[i][1],
                     !.y = p.y + KickCandidates(p, dir)[i][2]])

\* the index of the candidate a successful rotate committed: the first legal one
FirstFree(g, p, dir) ==
  CHOOSE i \in 1..Len(KickCandidates(p, dir)) :
    KickFree(g, p, dir, i) /\ \A j \in 1..(i - 1) : ~KickFree(g, p, dir, j)

\* C3: SRS kick resolution. A successful 90-degree rotate commits the target rotation
\* and the position moved by the first candidate, in table order, of the kind's kick
\* list whose cells are legal; the first candidate of every list is (0,0).
C3_KickResolution ==
  (last.op = "rotate" /\ last.arg \in {1, -1}) =>
    LET p     == last.pre.current
        g     == last.pre.grid
        cands == KickCandidates(p, last.arg)
    IN  /\ cands[1] = <<0, 0>>
        /\ last.ret <=> \E i \in 1..Len(cands) : KickFree(g, p, last.arg, i)
        /\ last.ret =>
             LET i == FirstFree(g, p, last.arg)
             IN  current = [p EXCEPT !.rotation = (p.rotation + last.arg) % 4,
                                     !.x = p.x + cands[i][1],
                                     !.y = p.y + cands[i][2]]

\* a rotate committed the second or third candidate
C3_Witness ==
  /\ last.op = "rotate" /\ last.arg \in {1, -1} /\ last.ret
  /\ FirstFree(last.pre.grid, last.pre.current, last.arg) \in {2, 3}

\* the last operation was a tick that locked the piece
TickLock == last.op = "tick" /\ last.ret

\* the number of rows the locked piece completed
ClearedByLock == Cardinality(FullRows(lock(last.pre.grid, LockPose)))

\* the points the last operation added to the score
Gain == score - last.pre.score

\* the engine classified the last lock as a T-spin
EngineTSpin == LockPose.kind = "T" /\ detect_tspin(grid, LockPose)

C6_TSpinSingle ==
  (/\ TickLock
   /\ LockPose.kind = "T"
   /\ ~last.pre.back_to_back
   /\ blocked_corners(last.pre.grid, LockPose) = 3
   /\ ClearedByLock = 1)
  => Gain = 800

\* C7: Game-over rejects intents. An intent issued once the game is over changes
\* nothing of the game state.
C7_GameOverRejectsIntents ==
  (last.op # "init" /\ last.pre.game_over) => Self = last.pre

\* piece t lies on a locked cell of grid g
Overlaps(g, t) ==
  \E i \in 1..4 :
     LET x == cells_of(t)[i][1]
         y == cells_of(t)[i][2]
     IN  0 <= x /\ x < COLS /\ 0 <= y /\ y < ROWS /\ g[y + 1][x + 1] # None

\* the current piece is at the spawn pose
AtSpawnPose == current.x = 4 /\ current.y = 0 /\ current.rotation = 0

\* C8: Game-over trigger and permanence. The game-over flag is set by an operation
\* exactly when that operation spawns a piece (after a lock or by a hold) that lies on a
\* locked cell at the spawn pose, and once set it stays set.
C8_GameOverTrigger ==
  /\ last.pre.game_over => game_over
  /\ (~last.pre.game_over /\ game_over) => (Spawned /\ AtSpawnPose /\ Overlaps(grid, current))
  /\ (Spawned /\ Overlaps(grid, current)) => (game_over /\ AtSpawnPose)

\* a hold swapped in a piece that lies on a locked cell: the game ended
C8_Witness ==
  /\ last.op = "hold"
  /\ ~last.pre.game_over
  /\ game_over

\* C9: Overflow lock is game-over. A lock of a piece with a cell above the grid (y < 0)
\* sets the game-over flag.
C9_OverflowLockIsGameOver ==
  (Locked /\ \E i \in 1..4 : cells_of(LockPose)[i][2] < 0) => game_over

\* C10: Hold with an empty slot. The slot takes the current kind, the front of the
\* next-queue becomes the current piece at the spawn pose, the queue gets exactly one
\* Bag draw at its back, and board and score are unchanged.
C10_HoldEmptySlot ==
  (last.op = "hold" /\ last.pre.hold_piece = NoPiece /\ ~last.pre.hold_used) =>
    LET p == last.pre
        n == Len(p.next_queue)
        k == next_queue[n].kind
    IN  /\ hold_piece.kind = p.current.kind
        /\ current = [Head(p.next_queue) EXCEPT !.x = 4, !.y = 0, !.rotation = 0]
        /\ Len(next_queue) = n
        /\ \A i \in 1..(n - 1) : next_queue[i] = p.next_queue[i + 1]
        /\ IF Len(p.bag) > 0
           THEN k = Head(p.bag) /\ bag = Tail(p.bag)
           ELSE Len(bag) = 6 /\ {k} \cup {bag[i] : i \in 1..6} = Kinds
        /\ draws_in_block(drawn) = (draws_in_block(p.drawn) % 7) + 1
        /\ grid = p.grid
        /\ score = p.score

\* a hold filled the empty slot and the draw it made refilled the Bag
C10_Witness ==
  /\ last.op = "hold" /\ last.pre.hold_piece = NoPiece /\ ~last.pre.hold_used
  /\ hold_piece # NoPiece
  /\ Len(last.pre.bag) = 0

\* C11: At most one hold per piece. A hold issued while the used-this-piece flag is set
\* changes nothing; a hold issued while it is clear sets it; and the flag is cleared
\* only by a lock. So between two locks at most one hold changes the state.
C11_OneHoldPerPiece ==
  /\ (last.op = "hold" /\ last.pre.hold_used) => (Self = last.pre /\ ~last.ret)
  /\ (last.op = "hold" /\ ~last.pre.hold_used) => hold_used
  /\ (last.op # "init" /\ last.pre.hold_used /\ ~hold_used) => Locked
  /\ Locked => ~hold_used

\* a second hold for the same piece was rejected
C11_Witness ==
  /\ last.op = "hold"
  /\ last.pre.hold_used
  /\ last.pre.hold_piece # NoPiece
  /\ steps >= 2


\* the target pose of a move of piece p by dx is legal on grid g
MoveFree(g, p, dx) == Legal(g, [p EXCEPT !.x = p.x + dx])

\* some kick candidate of a rotate of piece p in direction dir is legal on grid g
\* (a 180-degree rotate has the single candidate (0,0))
SomeKickFree(g, p, dir) ==
  IF dir \in {1, -1}
  THEN \E i \in 1..Len(KickCandidates(p, dir)) : KickFree(g, p, dir, i)
  ELSE Legal(g, [p EXCEPT !.rotation = (p.rotation + dir) % 4])

\* C12: Rejected intents leave state unchanged. A move whose target cells collide and a
\* rotate whose kick candidates all collide return False and change nothing of the game.
C12_RejectedIntents ==
  /\ last.op = "move" =>
        /\ ~MoveFree(last.pre.grid, last.pre.current, last.arg) => ~last.ret
        /\ ~last.ret => Self = last.pre
  /\ last.op = "rotate" =>
        /\ ~SomeKickFree(last.pre.grid, last.pre.current, last.arg) => ~last.ret
        /\ ~last.ret => Self = last.pre

\* a 90-degree rotate was rejected: each of its five candidates collides
C12_Witness ==
  /\ last.op = "rotate" /\ last.arg \in {1, -1} /\ ~last.ret
  /\ Len(KickCandidates(last.pre.current, last.arg)) = 5
  /\ ~SomeKickFree(last.pre.grid, last.pre.current, last.arg)


\* the ghost position of piece p on grid g: the greatest y the piece reaches from its
\* own y by descents of one row through legal poses
GhostY(g, p) ==
  CHOOSE y \in p.y..ROWS :
    /\ \A z \in (p.y + 1)..y : Legal(g, [p EXCEPT !.y = z])
    /\ ~Legal(g, [p EXCEPT !.y = y + 1])

\* every cell of piece t is a cell of the grid
OnBoard(t) ==
  \A i \in 1..4 :
     /\ cells_of(t)[i][1] \in 0..(COLS - 1)
     /\ cells_of(t)[i][2] \in 0..(ROWS - 1)

\* grid g with the kind of piece t written to the cells of t
Written(g, t) ==
  [r \in 1..ROWS |->
     [c \in 1..COLS |->
        IF \E i \in 1..4 : cells_of(t)[i] = <<c - 1, r - 1>> THEN t.kind ELSE g[r][c]]]

\* the pose a hard drop of the current piece locks it at, by the ghost position
HardDropPose == [last.pre.current EXCEPT !.y = GhostY(last.pre.grid, last.pre.current)]

\* C13: Hard drop placement. A hard drop locks the piece in the same call, whatever the
\* lock delay, at its x and rotation and at the ghost position; the 4 cells of that pose
\* are written to the board, then full lines are cleared and the next piece is spawned.
C13_HardDropPlacement ==
  last.op = "hard" =>
    /\ OnBoard(HardDropPose)
    /\ grid = clear_lines(Written(last.pre.grid, HardDropPose)).grid
    /\ current = [Head(last.pre.next_queue) EXCEPT !.x = 4, !.y = 0, !.rotation = 0]
    /\ lock_delay = 0

\* the same placement for the hard drops whose pose lies on the board
HardDropPlacementOnBoard ==
  (last.op = "hard" /\ OnBoard(HardDropPose)) =>
    /\ grid = clear_lines(Written(last.pre.grid, HardDropPose)).grid
    /\ current = [Head(last.pre.next_queue) EXCEPT !.x = 4, !.y = 0, !.rotation = 0]
    /\ lock_delay = 0

\* a hard drop of a falling piece that had lock delay running placed it and cleared lines
HardDropReached ==
  /\ last.op = "hard"
  /\ OnBoard(HardDropPose)
  /\ HardDropPose.y > last.pre.current.y
  /\ last.pre.lock_delay > 0


\* the points the engine awards the last lock for its lines: the base score of the
\* clear, the back-to-back multiplier and the back-to-back bonus of 50
LockPoints ==
  LET diff == difficult(EngineTSpin, ClearedByLock)
      base == base_score(EngineTSpin, ClearedByLock)
  IN  (IF last.pre.back_to_back /\ diff THEN (base * 3) \div 2 ELSE base)
      + (IF ClearedByLock > 0 /\ diff /\ last.pre.back_to_back THEN 50 ELSE 0)

\* the number of rows the last hard drop moved the piece down
RowsDropped == HardDropPose.y - last.pre.current.y

\* C14: Hard drop bonus. Beyond the points of the lock itself, a hard drop adds 2 points
\* per row the piece descended in that hard drop (0 for a piece already resting).
C14_HardDropBonus ==
  last.op = "hard" => Gain - LockPoints = 2 * RowsDropped


\* the piece of the state before the last operation can descend one row
CouldDescend ==
  Legal(last.pre.grid, [last.pre.current EXCEPT !.y = last.pre.current.y + 1])

\* C15: Tick and lock delay. A tick moves the piece down one row and sets lock delay to 0
\* when the piece can descend; otherwise it adds 1 to lock delay and locks the piece in
\* place exactly when the new value has reached LOCK_DELAY. It returns True exactly when
\* it locked.
C15_TickLockDelay ==
  last.op = "tick" =>
    LET p == last.pre.current
        g == last.pre.grid
    IN  IF CouldDescend
        THEN /\ current = [p EXCEPT !.y = p.y + 1]
             /\ lock_delay = 0
             /\ grid = g
             /\ ~last.ret
        ELSE IF last.pre.lock_delay + 1 >= LOCK_DELAY
        THEN /\ last.ret
             /\ grid = clear_lines(lock(g, p)).grid
             /\ current = [Head(last.pre.next_queue) EXCEPT !.x = 4, !.y = 0, !.rotation = 0]
        ELSE /\ ~last.ret
             /\ lock_delay = last.pre.lock_delay + 1
             /\ current = p
             /\ grid = g

\* a tick found lock delay one short of LOCK_DELAY and locked the resting piece
C15_Witness ==
  /\ last.op = "tick"
  /\ last.ret
  /\ ~CouldDescend
  /\ last.pre.lock_delay = LOCK_DELAY - 1


\* C16: Combo counter. combo is never below -1; after a lock it is -1 if the lock
\* cleared no line and otherwise the number of consecutive clearing locks ending with
\* this one, minus 1; no operation other than a lock changes it.
C16_ComboCounter ==
  /\ combo >= -1
  /\ Locked => /\ (ClearedByLock = 0 => combo = -1)
               /\ (ClearedByLock > 0 => combo = streak - 1 /\ streak >= 1)
  /\ (last.op # "init" /\ ~Locked) => combo = last.pre.combo

\* the second of two consecutive clearing locks: combo is 1
C16_Witness ==
  /\ Locked
  /\ ClearedByLock > 0
  /\ streak = 2
  /\ combo = 1


TSpinClearReached ==
  /\ Locked
  /\ EngineTSpin
  /\ ClearedByLock > 0
  /\ back_to_back


\* the last operation spawned the current piece from the next-queue
SpawnedFromQueue ==
  Locked \/ (last.op = "hold" /\ last.ret /\ last.pre.hold_piece = NoPiece)

\* C18: Next-queue. The next-queue always holds 5 pieces; a spawn from the queue makes
\* its front the current piece and appends one Bag draw at its back, so pieces become
\* current in the order they were drawn; every other operation, a hold swap with an
\* occupied slot included, leaves the queue as it was.
C18_NextQueue ==
  /\ Len(next_queue) = 5
  /\ (last.op # "init" /\ SpawnedFromQueue) =>
        /\ current.kind = Head(last.pre.next_queue).kind
        /\ SubSeq(next_queue, 1, 4) = Tail(last.pre.next_queue)
        /\ IF Len(last.pre.bag) > 0
           THEN next_queue[5].kind = Head(last.pre.bag) /\ bag = Tail(last.pre.bag)
           ELSE Len(bag) = 6 /\ {next_queue[5].kind} \cup {bag[i] : i \in 1..6} = Kinds
  /\ (last.op # "init" /\ ~SpawnedFromQueue) =>
        next_queue = last.pre.next_queue /\ bag = last.pre.bag

\* a lock spawned the front of the queue and the draw that refilled the queue found the
\* Bag empty
C18_Witness ==
  /\ Locked
  /\ Len(last.pre.bag) = 0
  /\ Len(bag) = 6
  /\ current.kind = Head(last.pre.next_queue).kind


\* the piece a hold swap makes current: the held kind at the spawn pose
SwappedIn == [kind |-> last.pre.hold_piece.kind, rotation |-> 0, x |-> 4, y |-> 0]

\* the last operation was a hold that found a piece in the slot and the flag clear
HoldSwap == last.op = "hold" /\ last.pre.hold_piece # NoPiece /\ ~last.pre.hold_used

\* C19: Hold swap with an occupied slot. The held kind becomes the current piece at the
\* spawn pose, the former current kind goes to the slot, the used flag is set, lock delay
\* and gravity timer are 0, game-over is set exactly when the spawn pose collides, and
\* board, next-queue, Bag, score, lines, combo and back-to-back are unchanged.
C19_HoldSwap ==
  HoldSwap =>
    /\ current = SwappedIn
    /\ hold_piece.kind = last.pre.current.kind
    /\ hold_used
    /\ lock_delay = 0
    /\ gravity_timer = 0
    /\ game_over <=> (last.pre.game_over \/ ~Legal(last.pre.grid, SwappedIn))
    /\ grid = last.pre.grid
    /\ next_queue = last.pre.next_queue
    /\ bag = last.pre.bag
    /\ score = last.pre.score
    /\ lines = last.pre.lines
    /\ combo = last.pre.combo
    /\ back_to_back = last.pre.back_to_back

\* a hold swapped two different kinds, moved the piece from elsewhere to the spawn pose
\* and did not end the game
C19_Witness ==
  /\ HoldSwap
  /\ last.pre.current.kind # last.pre.hold_piece.kind
  /\ <<last.pre.current.x, last.pre.current.y>> # <<4, 0>>
  /\ ~game_over


\* the set of cells piece t occupies
CellSet(t) == {cells_of(t)[i] : i \in 1..4}

\* C20: O-piece rotation is a no-op on the playfield. A 90-degree rotate of an O piece
\* changes neither the set of cells the piece occupies nor its position.
C20_ORotationNoOp ==
  (last.op = "rotate" /\ last.arg \in {1, -1} /\ last.pre.current.kind = "O") =>
    /\ CellSet(current) = CellSet(last.pre.current)
    /\ current.x = last.pre.current.x
    /\ current.y = last.pre.current.y

\* a rotate of an O piece applied a kick offset other than (0,0)
OKickReached ==
  /\ last.op = "rotate" /\ last.arg \in {1, -1} /\ last.ret
  /\ last.pre.current.kind = "O"
  /\ <<current.x, current.y>> # <<last.pre.current.x, last.pre.current.y>>


\* C21: No full row survives. In every state between intents, from construction on, no
\* row of the board has all COLS cells occupied.
C21_NoFullRow == FullRows(grid) = {}

\* a lock completed rows of the board and the operation left none of them
C21_Witness ==
  /\ Locked
  /\ ClearedByLock >= 2
  /\ FullRows(grid) = {}
  /\ grid # EmptyGrid


\* the ticks a piece that started in row fall.y has at most until it is locked
FallBound == (ROWS - 1 - fall.y) + LOCK_DELAY

\* the row the descent loop of hard_drop stops in
DescentEnd == drop_y(grid, current, current.y)

\* C22 (as stated): Every piece eventually locks under gravity. Under ticks alone, from
\* any state of a running game, the current piece is locked after at most
\* ROWS + LOCK_DELAY ticks.
C22_LocksWithinRowsPlusDelay == fall.ticks >= ROWS + LOCK_DELAY => fall.locked

\* under ticks alone a piece that started in row y is locked after at most
\* (ROWS - 1 - y) + LOCK_DELAY ticks, and the descent loop of hard_drop stops in a row
\* of the grid
LocksWithinFallBound ==
  /\ fall.ticks <= FallBound
  /\ fall.ticks = FallBound => fall.locked
  /\ ~game_over => DescentEnd \in current.y..(ROWS - 1)

\* C22 (amended): Every piece eventually locks under gravity. Under ticks alone, from
\* any state of a running game, the current piece is locked after at most
\* (ROWS - 1 - y) + LOCK_DELAY ticks, y being the row it is in when the ticks start
\* (0 for a spawned piece, -2 for a piece a rotation kick has lifted above the board),
\* the descent loop of hard_drop always terminates, and the game eventually reaches
\* game-over.
C22_EveryPieceLocks == []LocksWithinFallBound /\ <>game_over

\* ticks alone locked a piece that a kick had lifted to row -2 after it fell for
\* ROWS + LOCK_DELAY + 1 ticks
C22_Witness ==
  /\ Locked
  /\ fall.locked
  /\ fall.y = -2
  /\ fall.ticks = ROWS + LOCK_DELAY + 1
  /\ ~game_over

=============================================================================
